---- MODULE Spec2Model ----
(***************************************************************************)
(* Model of the browser scripts of tareas-federal.                         *)
(*                                                                         *)
(* Part 1: CalendarWidget (src/static/task_selector.js, lines 367-615).    *)
(* The widget holds a JavaScript Date (currentDate), a selected date, the  *)
(* event dates and the filter endpoints, and rebuilds its grid of day      *)
(* cells in render() at the end of every operation.                        *)
(*                                                                         *)
(* Strings are sequences of one-character strings, compared by UTF-16 code *)
(* unit as JavaScript's < and >= compare them.  A JavaScript Date is a     *)
(* record [y, m, d] of local calendar fields (m is 0-based); new Date(y,   *)
(* m, d) and setMonth normalise through the ECMAScript day number.         *)
(*                                                                         *)
(* Part 2: the notification pop-up (src/static/notifications.js and the    *)
(* older script src/unnamed/part_000).  Requests are messages in flight:   *)
(* the answer is fixed when the request is sent and handled when it        *)
(* arrives, in any order; timers are pending callbacks that fire in steps  *)
(* of their own.                                                           *)
(*                                                                         *)
(* Part 3: the search input of the task selector                           *)
(* (src/static/task_selector.js, lines 26-130) with its 300 ms debounce,   *)
(* under a clock that advances in steps of 100 ms.                         *)
(*                                                                         *)
(* Part 4: the task selector modal and the parent task of the form         *)
(* (src/static/task_selector.js, lines 1-142).  The variable latest        *)
(* records which request, if any, the last writer of the results is        *)
(* waiting for, and whether the results still show what it caused.         *)
(*                                                                         *)
(* Part 5: the sidebar (src/static/sidebar.js): the class 'collapsed', the *)
(* mobile menu, localStorage and the 100 ms timer of the resize listener.  *)
(***************************************************************************)
EXTENDS Integers, Sequences, FiniteSets, TLC

\* JavaScript null: a value that is no string (a string is a sequence of characters)
Null == <<"null">>

-----------------------------------------------------------------------------
(* Bounds of the model *)

\* months the visible month may be moved away from the month of "today"
MaxNav == 2
\* midnights that may pass while the page is open
MaxMidnights == 1

-----------------------------------------------------------------------------
(* JavaScript strings *)

\* UTF-16 code unit of a character
CharCode(c) ==
    CASE c = "-" -> 45
      [] c = "/" -> 47
      [] c = "0" -> 48
      [] c = "1" -> 49
      [] c = "2" -> 50
      [] c = "3" -> 51
      [] c = "4" -> 52
      [] c = "5" -> 53
      [] c = "6" -> 54
      [] c = "7" -> 55
      [] c = "8" -> 56
      [] c = "9" -> 57
      [] c = "x" -> 120

Min(a, b) == IF a < b THEN a ELSE b

\* the first position where s and t differ, or 0 if one is a prefix of the other
FirstDiff(s, t) ==
    LET D == {i \in 1..Min(Len(s), Len(t)) : s[i] # t[i]}
    IN  IF D = {} THEN 0 ELSE CHOOSE i \in D : \A j \in D : i <= j

\* s < t for JavaScript strings (IsLessThan on strings: code unit order, prefix first)
StrLess(s, t) ==
    LET k == FirstDiff(s, t)
    IN  IF k = 0 THEN Len(s) < Len(t) ELSE CharCode(s[k]) < CharCode(t[k])

\* s <= t and s >= t for JavaScript strings
StrLeq(s, t) == ~StrLess(t, s)
StrGeq(s, t) == ~StrLess(s, t)

\* the decimal digit n as a character
DigitChar(n) == <<"0", "1", "2", "3", "4", "5", "6", "7", "8", "9">>[n + 1]

\* String(n) for a non-negative integer
RECURSIVE ToStr(_)
ToStr(n) == IF n < 10 THEN <<DigitChar(n)>> ELSE ToStr(n \div 10) \o <<DigitChar(n % 10)>>

\* s.padStart(2, '0')
PadStart2(s) == IF Len(s) >= 2 THEN s ELSE IF Len(s) = 1 THEN <<"0">> \o s ELSE <<"0", "0">>

\* truthiness of an option value: null and the empty string are falsy
Truthy(s) == s # Null /\ s # <<>>

\* options.x || null
OrNull(s) == IF Truthy(s) THEN s ELSE Null

-----------------------------------------------------------------------------
(* JavaScript Date, local calendar fields (ECMAScript 21.4.1) *)

\* DaysInYear(y)
DaysInYear(y) ==
    IF y % 4 # 0 THEN 365
    ELSE IF y % 100 # 0 THEN 366
    ELSE IF y % 400 # 0 THEN 365
    ELSE 366

\* DayFromYear(y): day number of 1 January of year y (1970-01-01 is day 0)
DayFromYear(y) ==
    365 * (y - 1970) + ((y - 1969) \div 4) - ((y - 1901) \div 100) + ((y - 1601) \div 400)

\* YearFromTime: the year that holds day number t
YearFromDay(t) ==
    LET guess == 1970 + (t \div 365)
    IN  CHOOSE y \in (guess - 2)..(guess + 2) : DayFromYear(y) <= t /\ t < DayFromYear(y + 1)

\* 1 if year y has 366 days, else 0
LeapDay(y) == IF DaysInYear(y) = 366 THEN 1 ELSE 0

\* day within the year on which month m (0..11) starts; 12 gives the year's length
MonthStart(m, leap) ==
    CASE m = 0 -> 0
      [] m = 1 -> 31
      [] m = 2 -> 59 + leap
      [] m = 3 -> 90 + leap
      [] m = 4 -> 120 + leap
      [] m = 5 -> 151 + leap
      [] m = 6 -> 181 + leap
      [] m = 7 -> 212 + leap
      [] m = 8 -> 243 + leap
      [] m = 9 -> 273 + leap
      [] m = 10 -> 304 + leap
      [] m = 11 -> 334 + leap
      [] m = 12 -> 365 + leap

\* MonthFromTime, from the day within the year
MonthFromDayWithinYear(dwy, leap) ==
    CHOOSE m \in 0..11 : MonthStart(m, leap) <= dwy /\ dwy < MonthStart(m + 1, leap)

\* WeekDay: 0 = Sunday ... 6 = Saturday
WeekDay(t) == (t + 4) % 7

\* MakeDay(year, month, date) for integers; month and date may be out of range
MakeDay(year, month, date) ==
    LET ym == year + (month \div 12)
        mn == month % 12
    IN  DayFromYear(ym) + MonthStart(mn, LeapDay(ym)) + date - 1

\* the local calendar fields of day number t: YearFromTime, MonthFromTime, DateFromTime
DateOfDay(t) ==
    LET y == YearFromDay(t)
    IN  LET dwy == t - DayFromYear(y)
            leap == LeapDay(y)
        IN  LET m == MonthFromDayWithinYear(dwy, leap)
            IN  [y |-> y, m |-> m, d |-> dwy - MonthStart(m, leap) + 1]

\* new Date(year, month, day)
NewDate(year, month, day) == DateOfDay(MakeDay(year, month, day))

\* date.setMonth(month): the year and day of month are kept, then normalised
SetMonth(date, month) == NewDate(date.y, month, date.d)

\* new Date(year, month, day).getDay(): the week day of the time value
GetDay(year, month, day) == WeekDay(MakeDay(year, month, day))

-----------------------------------------------------------------------------
(* CalendarWidget: state *)

VARIABLES
    currentDate,      \* this.currentDate: the Date whose year and month are shown
    selectedDate,     \* this.selectedDate: Null or a date string
    eventDates,       \* this.eventDates: array of date strings
    onDateSelect,     \* whether a callback was supplied at construction
    filterStartDate,  \* this.filterStartDate: Null or a string
    filterEndDate,    \* this.filterEndDate: Null or a string
    html,             \* this.container.innerHTML as written by the last render()
    today,            \* the local date new Date() gave to the last render()
    midnights,        \* midnights passed since the page was loaded
    reaction,         \* the effects of the last selectDate, in order
    lastOp            \* the operation that ran last

calendarVars ==
    <<currentDate, selectedDate, eventDates, onDateSelect, filterStartDate,
      filterEndDate, html, today, midnights, reaction, lastOp>>

\* the notification pop-up of a page (notifications.js, or the older script)
VARIABLES
    script,            \* which notification script the page runs, "none" without one
    serverEnabled,     \* the user's notifications_enabled flag on the server
    serverBodies,      \* the bodies the server answers /api/tasks/due_soon with
    modalDisplay,      \* notificationModal.style.display
    modalContent,      \* notificationContent.innerHTML: the items it lists
    toggleActive,      \* notificationToggle has the class active
    notificationText,  \* what .notification-text says
    dueSoonInFlight,   \* responses of /api/tasks/due_soon not yet handled
    toggleInFlight,    \* responses of /api/user/toggle_notifications not yet handled
    postponeInFlight,  \* number of postpone requests whose response is not yet handled
    refreshTimers,     \* pending 1500 ms timers set after a successful postpone
    menus,             \* task ids of the .postpone-menu elements in the document
    clickListener,     \* handleOutsideClick is registered on the document
    listenerTimers,    \* pending zero-delay timers that will register it
    handled            \* the event handled last, with the data it carried

notifVars ==
    <<script, serverEnabled, serverBodies, modalDisplay, modalContent, toggleActive,
      notificationText, dueSoonInFlight, toggleInFlight, postponeInFlight, refreshTimers, menus,
      clickListener, listenerTimers, handled>>

\* the search input of the task selector
VARIABLES
    inputValue,      \* taskSearchInput.value
    results,         \* what taskSearchResults shows
    searchTimeout,   \* the timer id held by searchTimeout, 0 before the first
    timers,          \* the pending timers of the page: id and time left
    sinceInput,      \* time since the last input event, up to the debounce delay
    searchInFlight,  \* the queries of search requests not yet answered
    lastSearch,      \* what invoked searchTasks last, and how long after the last input
    burst,           \* the current burst of input events and what its timers caused
    latest           \* the request of the last action that wrote the results (its
                     \* place in searchInFlight, 0 when it sent none or was answered),
                     \* and whether the results still show what that action caused

searchVars ==
    <<inputValue, results, searchTimeout, timers, sinceInput, searchInFlight,
      lastSearch, burst, latest>>

DebounceDelay == 300

\* a page without the search input: no listener is attached
SearchIdle ==
    /\ inputValue = <<>>
    /\ results = [kind |-> "empty", query |-> <<>>]
    /\ searchTimeout = 0
    /\ timers = {}
    /\ sinceInput = DebounceDelay
    /\ searchInFlight = <<>>
    /\ lastSearch = [by |-> "none", sinceInput |-> 0]
    /\ burst = [events |-> 0, searches |-> 0, requests |-> 0]
    /\ latest = [inFlight |-> 0, shown |-> TRUE]

\* the task selector modal and the parent task of the form
VARIABLES
    selectorDisplay,     \* taskSelectorModal.style.display
    selectedParentTask,  \* the variable selectedParentTask
    parent_id,           \* the value of the hidden input parent_id
    parentTaskDisplay,   \* what parentTaskDisplay shows
    selectorOp           \* the function of the task selector that ran last

selectorVars ==
    <<selectorDisplay, selectedParentTask, parent_id, parentTaskDisplay, selectorOp>>

\* selectedParentTask = null
NoParentTask == [kind |-> "null", id |-> 0, title |-> <<>>]

\* the form as the template renders it, without a parent task, the modal hidden
SelectorIdle ==
    /\ selectorDisplay = "none"
    /\ selectedParentTask = NoParentTask
    /\ parent_id = <<>>
    /\ parentTaskDisplay = [kind |-> "markup", id |-> 0, title |-> <<>>]
    /\ selectorOp = "none"

\* the sidebar
VARIABLES
    collapsed,      \* sidebar.classList has 'collapsed'
    mobileOpen,     \* sidebar.classList has 'mobile-open'
    overlayActive,  \* overlay.classList has 'active'
    bodyOverflow,   \* document.body.style.overflow
    storage,        \* localStorage.getItem('sidebar_collapsed')
    innerWidth,     \* window.innerWidth
    resizeTimer,    \* the pending timer of the resize listener: the time it has left
    sidebarOp       \* the listener of the sidebar that ran last, and whether the
                    \* sidebar had the class 'collapsed' before it ran

sidebarVars ==
    <<collapsed, mobileOpen, overlayActive, bodyOverflow, storage, innerWidth,
      resizeTimer, sidebarOp>>

Breakpoint == 992

\* a page before the sidebar script has run
SidebarIdle ==
    /\ collapsed = FALSE
    /\ mobileOpen = FALSE
    /\ overlayActive = FALSE
    /\ bodyOverflow = <<>>
    /\ storage = Null
    /\ innerWidth = Breakpoint + 1
    /\ resizeTimer = {}
    /\ sidebarOp = [op |-> "none", was |-> FALSE]

otherVars == <<notifVars, searchVars, selectorVars, sidebarVars>>

vars == <<calendarVars, otherVars>>

\* the items of an empty notificationContent
EmptyContent == [overdueTasks |-> <<>>, overdueExpirations |-> <<>>,
                 tasks |-> <<>>, expirations |-> <<>>]

\* a page that runs no notification script
NotifIdle ==
    /\ script = "none"
    /\ serverEnabled = TRUE
    /\ serverBodies = {}
    /\ modalDisplay = "none"
    /\ modalContent = EmptyContent
    /\ toggleActive = TRUE
    /\ notificationText = "template"
    /\ dueSoonInFlight = <<>>
    /\ toggleInFlight = <<>>
    /\ postponeInFlight = 0
    /\ refreshTimers = 0
    /\ menus = <<>>
    /\ clickListener = FALSE
    /\ listenerTimers = 0
    /\ handled = [op |-> "none"]

OthersIdle == NotifIdle /\ SearchIdle /\ SelectorIdle /\ SidebarIdle

\* the fields of the widget that render() reads
Widget(cd, sel, ev, fs, fe) ==
    [currentDate |-> cd, selectedDate |-> sel, eventDates |-> ev,
     filterStartDate |-> fs, filterEndDate |-> fe]

-----------------------------------------------------------------------------
(* CalendarWidget: helpers *)

\* formatDate without padStart
formatDate_Unpadded(year, month, day) ==
    ToStr(year) \o <<"-">> \o ToStr(month + 1) \o <<"-">> \o ToStr(day)

\* formatDate with the 0-based month taken as the month number
formatDate_MonthZeroBased(year, month, day) ==
    ToStr(year) \o <<"-">> \o PadStart2(ToStr(month)) \o <<"-">> \o PadStart2(ToStr(day))

\* formatDate(year, month, day): `${year}-${m}-${d}` with m and d padded to 2
formatDate(year, month, day) ==
    ToStr(year) \o <<"-">> \o PadStart2(ToStr(month + 1)) \o <<"-">> \o PadStart2(ToStr(day))

\* isToday without the comparison of the month
isToday_NoMonth(now, year, month, day) ==
    now.y = year /\ now.d = day

\* isToday(year, month, day), with now the value of new Date()
isToday(now, year, month, day) ==
    now.y = year /\ now.m = month /\ now.d = day

\* a weekend test that takes getDay() to count from Monday
isWeekend_MondayFirst(year, month, day) ==
    LET dayOfWeek == GetDay(year, month, day)
    IN  dayOfWeek = 5 \/ dayOfWeek = 6

\* isWeekend(year, month, day)
isWeekend(year, month, day) ==
    LET dayOfWeek == GetDay(year, month, day)
    IN  dayOfWeek = 0 \/ dayOfWeek = 6

\* isInFilterRange(dateStr)
isInFilterRange(w, dateStr) ==
    IF ~Truthy(w.filterStartDate) \/ ~Truthy(w.filterEndDate) THEN FALSE
    ELSE StrGeq(dateStr, w.filterStartDate) /\ StrLeq(dateStr, w.filterEndDate)

\* this.eventDates.includes(dateStr)
Includes(arr, x) == \E i \in 1..Len(arr) : arr[i] = x

\* renderLegend(): the legend entries
renderLegend(w) ==
    <<"today">>
    \o (IF Truthy(w.filterStartDate) \/ Truthy(w.filterEndDate) THEN <<"filter-range">> ELSE <<>>)
    \o <<"has-event">>

-----------------------------------------------------------------------------
(* CalendarWidget: render *)

\* startDay taken Sunday-first, as getDay() gives it
StartDay_SundayFirst(year, month) == GetDay(year, month, 1)

\* let startDay = firstDay.getDay() - 1; if (startDay < 0) startDay = 6
StartDay(year, month) ==
    LET s == GetDay(year, month, 1) - 1
    IN  IF s < 0 THEN 6 ELSE s

\* the last day taken from new Date(year, month, 0): the month before
DaysInMonth_MonthBefore(year, month) == NewDate(year, month, 0).d

\* new Date(year, month + 1, 0).getDate()
DaysInMonth(year, month) == NewDate(year, month + 1, 0).d

\* new Date(year, month, 0).getDate()
PrevMonthDays(year, month) == NewDate(year, month, 0).d

\* a filler cell of an adjacent month
OtherMonthCell(day) ==
    [text |-> day, classes |-> <<"calendar-widget-day", "other-month">>,
     eventDot |-> FALSE, onclick |-> Null]

\* the loop "for (let i = startDay - 1; i >= 0; i--)": day = prevMonthDays - i
LeadingCells(year, month) ==
    LET startDay == StartDay(year, month)
        prevMonthDays == PrevMonthDays(year, month)
    IN  [k \in 1..startDay |-> OtherMonthCell(prevMonthDays - (startDay - k))]

\* the class list with in-filter-range pushed on the boundary cells too
DayClasses_RangeOnBoundary(isTodayF, isWeekendF, isFilterStart, isFilterEnd, isInRange, isSelected) ==
    <<"calendar-widget-day">>
    \o (IF isTodayF THEN <<"today">> ELSE <<>>)
    \o (IF isWeekendF THEN <<"weekend">> ELSE <<>>)
    \o (IF isFilterStart THEN <<"filter-start">> ELSE <<>>)
    \o (IF isFilterEnd THEN <<"filter-end">> ELSE <<>>)
    \o (IF isInRange THEN <<"in-filter-range">> ELSE <<>>)
    \o (IF isSelected /\ ~isTodayF THEN <<"selected">> ELSE <<>>)

\* the class list of an in-month cell, in the order of the pushes
\* a class list that marks the selected day even when it is today
DayClasses_SelectedToday(isTodayF, isWeekendF, isFilterStart, isFilterEnd, isInRange, isSelected) ==
    <<"calendar-widget-day">>
    \o (IF isTodayF THEN <<"today">> ELSE <<>>)
    \o (IF isWeekendF THEN <<"weekend">> ELSE <<>>)
    \o (IF isFilterStart THEN <<"filter-start">> ELSE <<>>)
    \o (IF isFilterEnd THEN <<"filter-end">> ELSE <<>>)
    \o (IF isInRange /\ ~isFilterStart /\ ~isFilterEnd THEN <<"in-filter-range">> ELSE <<>>)
    \o (IF isSelected THEN <<"selected">> ELSE <<>>)

DayClasses(isTodayF, isWeekendF, isFilterStart, isFilterEnd, isInRange, isSelected) ==
    <<"calendar-widget-day">>
    \o (IF isTodayF THEN <<"today">> ELSE <<>>)
    \o (IF isWeekendF THEN <<"weekend">> ELSE <<>>)
    \o (IF isFilterStart THEN <<"filter-start">> ELSE <<>>)
    \o (IF isFilterEnd THEN <<"filter-end">> ELSE <<>>)
    \o (IF isInRange /\ ~isFilterStart /\ ~isFilterEnd THEN <<"in-filter-range">> ELSE <<>>)
    \o (IF isSelected /\ ~isTodayF THEN <<"selected">> ELSE <<>>)

\* one iteration of the loop over the days of the month
DayCell(w, now, year, month, day) ==
    LET dateStr == formatDate(year, month, day)
        hasEvent == Includes(w.eventDates, dateStr)
    IN  [text |-> day,
         classes |-> DayClasses(isToday(now, year, month, day),
                                isWeekend(year, month, day),
                                w.filterStartDate = dateStr,
                                w.filterEndDate = dateStr,
                                isInFilterRange(w, dateStr),
                                w.selectedDate = dateStr),
         eventDot |-> hasEvent,
         onclick |-> dateStr]

MonthCells(w, now, year, month) ==
    [day \in 1..DaysInMonth(year, month) |-> DayCell(w, now, year, month, day)]

\* the trailing cells without the test "remainder > 0"
TrailingCells_NoGuard(year, month) ==
    LET totalCells == StartDay(year, month) + DaysInMonth(year, month)
        remainder == totalCells % 7
    IN  [i \in 1..(7 - remainder) |-> OtherMonthCell(i)]

\* the cells of the next month that fill the last week
TrailingCells(year, month) ==
    LET totalCells == StartDay(year, month) + DaysInMonth(year, month)
        remainder == totalCells % 7
    IN  IF remainder > 0 THEN [i \in 1..(7 - remainder) |-> OtherMonthCell(i)] ELSE <<>>

\* render(): the content written to the container, with now the value of new Date()
render(w, now) ==
    LET year == w.currentDate.y
        month == w.currentDate.m
    IN  [year |-> year,
         month |-> month,
         cells |-> LeadingCells(year, month) \o MonthCells(w, now, year, month)
                   \o TrailingCells(year, month),
         legend |-> renderLegend(w)]

-----------------------------------------------------------------------------
(* CalendarWidget: inputs of the model *)

\* the dates the system clock may show when the page is loaded
InitYears == {2000, 2024, 2100}
InitDays == {1, 15, 29, 31}
InitDates ==
    {dt \in [y : InitYears, m : 0..11, d : InitDays] : dt.d <= DaysInMonth(dt.y, dt.m)}

\* the days of the visible month the user clicks
ClickDays == {15}

\* date strings used as event dates and filter endpoints
D_0229 == <<"2", "0", "2", "4", "-", "0", "2", "-", "2", "9">>
D_0301 == <<"2", "0", "2", "4", "-", "0", "3", "-", "0", "1">>
D_0305 == <<"2", "0", "2", "4", "-", "0", "3", "-", "0", "5">>
D_0310 == <<"2", "0", "2", "4", "-", "0", "3", "-", "1", "0">>
D_0315 == <<"2", "0", "2", "4", "-", "0", "3", "-", "1", "5">>
D_0320 == <<"2", "0", "2", "4", "-", "0", "3", "-", "2", "0">>
\* strings that are no zero-padded YYYY-MM-DD date
M_Year == <<"2", "0", "2", "4">>
M_NextYear == <<"2", "0", "2", "5">>
M_Unpadded == <<"2", "0", "2", "4", "-", "3", "-", "7">>
M_Slashes == <<"2", "0", "2", "4", "/", "0", "3", "/", "1", "2">>
M_Letter == <<"x">>
M_Empty == <<>>

\* arrays given as options.eventDates or to setEventDates
EventOptions ==
    {<<>>, <<D_0305, D_0320>>, <<D_0229, D_0301, M_Unpadded, M_Year>>}

\* the clock seen by a render: the same day, or the next one after a midnight
NextDay(date) == NewDate(date.y, date.m, date.d + 1)
ClockReads == {today} \cup (IF midnights < MaxMidnights THEN {NextDay(today)} ELSE {})
Ticks(now) == IF now = today THEN 0 ELSE 1

\* months since year 0, to bound the navigation
MonthIndex(date) == date.y * 12 + date.m
InNavWindow(date, now) ==
    /\ MonthIndex(date) - MonthIndex(now) <= MaxNav
    /\ MonthIndex(now) - MonthIndex(date) <= MaxNav

-----------------------------------------------------------------------------
(* CalendarWidget: operations *)

\* constructor(containerId, options): the state after construction
Construct(now, options) ==
    /\ currentDate = now
    /\ selectedDate = Null
    /\ eventDates = options.eventDates
    /\ onDateSelect = options.onDateSelect
    /\ filterStartDate = OrNull(options.filterStartDate)
    /\ filterEndDate = OrNull(options.filterEndDate)
    /\ today = now
    /\ midnights = 0
    /\ reaction = <<>>
    /\ lastOp = "constructor"
    /\ html = render(Widget(now, Null, options.eventDates,
                            OrNull(options.filterStartDate),
                            OrNull(options.filterEndDate)), now)

\* the Date after this.currentDate.setMonth(this.currentDate.getMonth() - 1)
prevMonthDate(date) == SetMonth(date, date.m - 1)

\* the Date after this.currentDate.setMonth(this.currentDate.getMonth() + 1)
nextMonthDate(date) == SetMonth(date, date.m + 1)

\* prevMonth()
prevMonth ==
    \E now \in ClockReads :
        /\ InNavWindow(prevMonthDate(currentDate), now)
        /\ currentDate' = prevMonthDate(currentDate)
        /\ today' = now
        /\ midnights' = midnights + Ticks(now)
        /\ html' = render(Widget(currentDate', selectedDate, eventDates,
                                 filterStartDate, filterEndDate), now)
        /\ lastOp' = "prevMonth"
        /\ UNCHANGED <<selectedDate, eventDates, onDateSelect, filterStartDate,
                       filterEndDate, reaction>>
        /\ UNCHANGED otherVars

\* nextMonth()
nextMonth ==
    \E now \in ClockReads :
        /\ InNavWindow(nextMonthDate(currentDate), now)
        /\ currentDate' = nextMonthDate(currentDate)
        /\ today' = now
        /\ midnights' = midnights + Ticks(now)
        /\ html' = render(Widget(currentDate', selectedDate, eventDates,
                                 filterStartDate, filterEndDate), now)
        /\ lastOp' = "nextMonth"
        /\ UNCHANGED <<selectedDate, eventDates, onDateSelect, filterStartDate,
                       filterEndDate, reaction>>
        /\ UNCHANGED otherVars

\* the date strings the user can click: the onclick of the in-month cells
Clickable ==
    {html.cells[i].onclick : i \in {j \in 1..Len(html.cells) :
        html.cells[j].onclick # Null /\ html.cells[j].text \in ClickDays}}

\* window.location.href of the page that holds the widget: a path and its query
PageLocation ==
    [path |-> "/tasks", start_date |-> D_0310, end_date |-> D_0315,
     period |-> "month", tag |-> "7"]

\* url.searchParams.set(name, value)
SearchParamsSet(url, name, value) == [url EXCEPT ![name] = value]

\* an ordering of the effects that runs the default redirect even with a callback
selectDateEffects_AlwaysRedirect(dateStr, callback) ==
    LET url == SearchParamsSet(SearchParamsSet(SearchParamsSet(PageLocation,
                   "start_date", dateStr), "end_date", dateStr), "period", "custom")
    IN  <<[effect |-> "selectedDate", value |-> dateStr]>>
        \o (IF callback THEN <<[effect |-> "onDateSelect", value |-> dateStr]>> ELSE <<>>)
        \o <<[effect |-> "location.href", value |-> url]>>
        \o <<[effect |-> "render", value |-> dateStr]>>

\* the effects of selectDate(dateStr) in the order the method performs them
selectDateEffects(dateStr, callback) ==
    LET url == SearchParamsSet(SearchParamsSet(SearchParamsSet(PageLocation,
                   "start_date", dateStr), "end_date", dateStr), "period", "custom")
    IN  <<[effect |-> "selectedDate", value |-> dateStr]>>
        \o (IF callback
            THEN <<[effect |-> "onDateSelect", value |-> dateStr]>>
            ELSE <<[effect |-> "location.href", value |-> url]>>)
        \o <<[effect |-> "render", value |-> dateStr]>>

\* selectDate(dateStr)
selectDate(dateStr) ==
    \E now \in ClockReads :
        /\ selectedDate' = dateStr
        /\ reaction' = selectDateEffects(dateStr, onDateSelect)
        /\ today' = now
        /\ midnights' = midnights + Ticks(now)
        /\ html' = render(Widget(currentDate, selectedDate', eventDates,
                                 filterStartDate, filterEndDate), now)
        /\ lastOp' = "selectDate"
        /\ UNCHANGED <<currentDate, eventDates, onDateSelect, filterStartDate,
                       filterEndDate>>
        /\ UNCHANGED otherVars

\* an update of the events that also drops the selection
setEventDates_ClearsSelection(dates) ==
    \E now \in ClockReads :
        /\ eventDates' = dates
        /\ selectedDate' = Null
        /\ today' = now
        /\ midnights' = midnights + Ticks(now)
        /\ html' = render(Widget(currentDate, selectedDate', eventDates',
                                 filterStartDate, filterEndDate), now)
        /\ lastOp' = "setEventDates"
        /\ UNCHANGED <<currentDate, onDateSelect, filterStartDate,
                       filterEndDate, reaction>>
        /\ UNCHANGED otherVars

setEventDates(dates) ==
    \E now \in ClockReads :
        /\ eventDates' = dates
        /\ today' = now
        /\ midnights' = midnights + Ticks(now)
        /\ html' = render(Widget(currentDate, selectedDate, eventDates',
                                 filterStartDate, filterEndDate), now)
        /\ lastOp' = "setEventDates"
        /\ UNCHANGED <<currentDate, selectedDate, onDateSelect, filterStartDate,
                       filterEndDate, reaction>>
        /\ UNCHANGED otherVars

ClickDate == \E dateStr \in Clickable : selectDate(dateStr)

\* selectDate called by the page with a date of its own choice (20 March 2024)
SelectArgs == {D_0320}
CallSelectDate == \E dateStr \in SelectArgs : dateStr # selectedDate /\ selectDate(dateStr)

UpdateEvents == \E dates \in EventOptions : dates # eventDates /\ setEventDates(dates)

-----------------------------------------------------------------------------
(* Specifications *)

NoFilter == [start |-> Null, end |-> Null]

\* the filter endpoints given as options: absent, dates, and strings that are no dates
FilterStrings ==
    {Null, D_0310, D_0315, M_Year, M_NextYear, M_Unpadded, M_Slashes, M_Letter, M_Empty}
FilterOptions == [start : FilterStrings, end : FilterStrings]

Options(ev, cb, f) ==
    [eventDates |-> ev, onDateSelect |-> cb,
     filterStartDate |-> f.start, filterEndDate |-> f.end]

\* the whole widget: a page loaded on 29 February or 15 March 2024 with the filter
\* 2024-03-10 .. 2024-03-15, then any navigation, click and event update
SpecDates == {[y |-> 2024, m |-> 1, d |-> 29], [y |-> 2024, m |-> 2, d |-> 15]}

Init ==
    \E now \in SpecDates, cb \in BOOLEAN :
        /\ Construct(now, Options(<<>>, cb, [start |-> D_0310, end |-> D_0315]))
        /\ OthersIdle

Next == prevMonth \/ nextMonth \/ ClickDate \/ CallSelectDate \/ UpdateEvents

Spec == Init /\ [][Next]_vars

\* navigation alone, from a page loaded on any of the sampled dates
NavInit ==
    \E now \in InitDates :
        /\ Construct(now, Options(<<>>, FALSE, NoFilter))
        /\ OthersIdle

NavNext == prevMonth \/ nextMonth

NavSpec == NavInit /\ [][NavNext]_vars

\* navigation around March 2024 under every pair of filter endpoints
FilterInit ==
    \E now \in SpecDates, f \in FilterOptions :
        /\ Construct(now, Options(<<D_0305, M_Unpadded, M_Year>>, FALSE, f))
        /\ OthersIdle

FilterSpec == FilterInit /\ [][NavNext]_vars

-----------------------------------------------------------------------------
(* Reading the rendered grid *)

HasClass(cell, c) == Includes(cell.classes, c)
IsFiller(cell) == HasClass(cell, "other-month")

\* positions of the in-month cells of a rendered grid
InMonthPos(h) == {i \in 1..Len(h.cells) : ~IsFiller(h.cells[i])}
FirstInMonth(h) == CHOOSE i \in InMonthPos(h) : \A j \in InMonthPos(h) : i <= j
LastInMonth(h) == CHOOSE i \in InMonthPos(h) : \A j \in InMonthPos(h) : i >= j
LeadingCount(h) == FirstInMonth(h) - 1
InMonthCount(h) == Cardinality(InMonthPos(h))
TrailingCount(h) == Len(h.cells) - LastInMonth(h)

\* the visible (year, month)
Visible == <<html.year, html.month>>
YearMonth(date) == <<date.y, date.m>>
SuccMonth(ym) == IF ym[2] = 11 THEN <<ym[1] + 1, 0>> ELSE <<ym[1], ym[2] + 1>>
PredMonth(ym) == IF ym[2] = 0 THEN <<ym[1] - 1, 11>> ELSE <<ym[1], ym[2] - 1>>

\* the calendar itself: the days of month m (0-based) of year y
IsLeapYear(y) == y % 4 = 0 /\ (y % 100 # 0 \/ y % 400 = 0)
RealDaysInMonth(y, m) ==
    IF m = 1 THEN (IF IsLeapYear(y) THEN 29 ELSE 28)
    ELSE IF m \in {3, 5, 8, 10} THEN 30
    ELSE 31

\* the week day of day d of month m (0-based) of year y, Monday = 0 ... Sunday = 6
\* (Sakamoto's method, independent of the day numbers of the Date model)
MondayFirstWeekDay(y, m, d) ==
    LET t == <<0, 3, 2, 5, 0, 3, 5, 1, 4, 6, 2, 4>>
        yy == IF m < 2 THEN y - 1 ELSE y
    IN  (((yy + (yy \div 4) - (yy \div 100) + (yy \div 400) + t[m + 1] + d) % 7) + 6) % 7

\* the zero-padded YYYY-MM-DD string of a date, digit by digit
Iso(y, m, d) ==
    <<DigitChar(y \div 1000), DigitChar((y \div 100) % 10), DigitChar((y \div 10) % 10),
      DigitChar(y % 10), "-", DigitChar((m + 1) \div 10), DigitChar((m + 1) % 10), "-",
      DigitChar(d \div 10), DigitChar(d % 10)>>

\* n applications of nextMonth's (dir = 1) or prevMonth's (dir = -1) change of currentDate
RECURSIVE Navigate(_, _, _)
Navigate(date, dir, n) ==
    IF n = 0 THEN date
    ELSE CHOOSE end \in {Navigate(next, dir, n - 1) :
                            next \in {IF dir = 1 THEN nextMonthDate(date)
                                      ELSE prevMonthDate(date)}} : TRUE

-----------------------------------------------------------------------------
(* Notifications: the pop-up of tasks and expirations due soon or overdue *)

MaxDueSoon == 1     \* due_soon responses in flight at once
MaxToggle == 1      \* toggle responses in flight at once
MaxPostpone == 1    \* postpone requests in flight at once
MaxTimers == 1      \* pending timers of each kind

\* JSON values of a days_remaining field: a number, the string that spells a
\* number, or null
Num(n) == [type |-> "number", v |-> n]
StrNum(n) == [type |-> "string", v |-> n]
JsonNull == [type |-> "null", v |-> 0]

\* x === n for a number n
StrictEq(x, n) == x.type = "number" /\ x.v = n

\* an urgency rule that calls everything under one day "today"
TaskUrgency_TodayWhenPast(days_remaining) ==
    IF days_remaining.type = "number" /\ days_remaining.v <= 0
    THEN [text |-> <<"¡VENCE HOY!">>, color |-> "#dc2626"]
    ELSE IF StrictEq(days_remaining, 1)
    THEN [text |-> <<"Vence mañana (1 día hábil)">>, color |-> "#f59e0b"]
    ELSE [text |-> <<"Vence en ", days_remaining, " días hábiles">>, color |-> "#059669"]

\* urgencyText and urgencyColor of a task due soon
TaskUrgency(days_remaining) ==
    IF StrictEq(days_remaining, 0)
    THEN [text |-> <<"¡VENCE HOY!">>, color |-> "#dc2626"]
    ELSE IF StrictEq(days_remaining, 1)
    THEN [text |-> <<"Vence mañana (1 día hábil)">>, color |-> "#f59e0b"]
    ELSE [text |-> <<"Vence en ", days_remaining, " días hábiles">>, color |-> "#059669"]

\* urgencyText and urgencyColor of an expiration due soon
ExpirationUrgency(days_remaining) ==
    IF StrictEq(days_remaining, 0)
    THEN [text |-> <<"¡VENCE HOY!">>, color |-> "#dc2626"]
    ELSE IF StrictEq(days_remaining, 1)
    THEN [text |-> <<"Vence mañana (1 día hábil)">>, color |-> "#f59e0b"]
    ELSE [text |-> <<"Vence en ", days_remaining, " días hábiles">>, color |-> "#059669"]

\* urgencyText and urgencyColor of a task in the older script
LegacyTaskUrgency(days_remaining) ==
    IF StrictEq(days_remaining, 0)
    THEN [text |-> <<"¡VENCE HOY!">>, color |-> "#dc2626"]
    ELSE IF StrictEq(days_remaining, 1)
    THEN [text |-> <<"Vence mañana (1 día hábil)">>, color |-> "#f59e0b"]
    ELSE [text |-> <<"Vence en ", days_remaining, " días hábiles">>, color |-> "#059669"]

\* daysText of an overdue item
OverdueDaysText(days_overdue) ==
    IF StrictEq(days_overdue, 1) THEN <<"1 día hábil">>
    ELSE <<days_overdue, " días hábiles">>

\* the <li> written for each kind of item: whose it is, its urgency line and
\* whether it carries a postpone button
DueTaskItem(task) ==
    [id |-> task.id, urgency |-> TaskUrgency(task.days_remaining), postponeBtn |-> TRUE]
DueExpirationItem(exp) ==
    [id |-> exp.id, urgency |-> ExpirationUrgency(exp.days_remaining),
     postponeBtn |-> FALSE]
OverdueTaskItem(task) ==
    [id |-> task.id,
     urgency |-> [text |-> <<"¡VENCIDA hace ">> \o OverdueDaysText(task.days_overdue),
                  color |-> "#dc2626"],
     postponeBtn |-> TRUE]
OverdueExpirationItem(exp) ==
    [id |-> exp.id,
     urgency |-> [text |-> <<"¡VENCIDO hace ">> \o OverdueDaysText(exp.days_overdue),
                  color |-> "#dc2626"],
     postponeBtn |-> FALSE]
LegacyTaskItem(task) ==
    [id |-> task.id, urgency |-> LegacyTaskUrgency(task.days_remaining),
     postponeBtn |-> FALSE]

\* the content showNotificationModal builds from the four lists
showNotificationModal(tasks, expirations, overdueTasks, overdueExpirations) ==
    [overdueTasks |-> [i \in 1..Len(overdueTasks) |-> OverdueTaskItem(overdueTasks[i])],
     overdueExpirations |->
         [i \in 1..Len(overdueExpirations) |-> OverdueExpirationItem(overdueExpirations[i])],
     tasks |-> [i \in 1..Len(tasks) |-> DueTaskItem(tasks[i])],
     expirations |-> [i \in 1..Len(expirations) |-> DueExpirationItem(expirations[i])]]

\* the content the older showNotificationModal builds from the list of tasks
LegacyShowNotificationModal(tasks) ==
    [overdueTasks |-> <<>>, overdueExpirations |-> <<>>,
     tasks |-> [i \in 1..Len(tasks) |-> LegacyTaskItem(tasks[i])],
     expirations |-> <<>>]

\* the items of a due_soon response
Task(id, days) == [id |-> id, days_remaining |-> days]
Overdue(id, days) == [id |-> id, days_overdue |-> days]

\* a response body: the four lists, and the names of those the body lacks
Body(t, e, ot, oe, absent) ==
    [tasks |-> t, expirations |-> e, overdue_tasks |-> ot, overdue_expirations |-> oe,
     absent |-> absent]

AllLists == {"tasks", "expirations", "overdue_tasks", "overdue_expirations"}

P_Empty == Body(<<>>, <<>>, <<>>, <<>>, {})
P_Absent == Body(<<>>, <<>>, <<>>, <<>>, AllLists)
P_Tasks ==
    Body(<<Task(1, Num(0)), Task(2, Num(1)), Task(4, Num(3)), Task(6, Num(-1))>>,
         <<>>, <<>>, <<>>, {"expirations", "overdue_tasks", "overdue_expirations"})
P_Expirations ==
    Body(<<>>, <<Task(7, Num(0)), Task(8, Num(1)), Task(9, StrNum(1)), Task(10, JsonNull)>>,
         <<>>, <<>>, {})
P_OverdueTasks == Body(<<>>, <<>>, <<Overdue(3, Num(1))>>, <<>>, {})
P_OverdueExpirations == Body(<<>>, <<>>, <<>>, <<Overdue(5, Num(2))>>, {"tasks"})

DueSoonBodies ==
    {P_Empty, P_Absent, P_Tasks, P_Expirations, P_OverdueTasks, P_OverdueExpirations}

\* data.name && data.name.length > 0
HasItems(data, name) == name \notin data.absent /\ Len(data[name]) > 0

\* data.name || []
OrEmpty(data, name) == IF name \in data.absent THEN <<>> ELSE data[name]

\* what the server may answer to /api/tasks/due_soon: any of the bodies for a
\* user whose notifications are enabled, no items for one who disabled them, or
\* no answer at all (the fetch fails)
DueSoonAnswers(enabled) ==
    {[ok |-> FALSE, data |-> P_Absent]}
    \cup {[ok |-> TRUE, data |-> d] : d \in (IF enabled THEN serverBodies ELSE {P_Empty})}

\* who called checkTasksDueSoon
Callers == {"load", "toggle", "refresh"}

\* checkTasksDueSoon(), up to the fetch: the requests in flight after it
checkTasksDueSoon(inFlight, caller) ==
    {Append(inFlight, [ok |-> r.ok, data |-> r.data, caller |-> caller]) :
        r \in DueSoonAnswers(serverEnabled)}

Remove(seq, i) == SubSeq(seq, 1, i - 1) \o SubSeq(seq, i + 1, Len(seq))

\* a test that looks at the lists due soon only
DueSoonOpens_DueSoonOnly(data) ==
    HasItems(data, "tasks") \/ HasItems(data, "expirations")

\* hasTasks || hasExpirations || hasOverdueTasks || hasOverdueExpirations
DueSoonOpens(data) ==
    \/ HasItems(data, "tasks")
    \/ HasItems(data, "expirations")
    \/ HasItems(data, "overdue_tasks")
    \/ HasItems(data, "overdue_expirations")

\* the older script: data.tasks && data.tasks.length > 0
LegacyDueSoonOpens(data) == HasItems(data, "tasks")

Opens(data) ==
    IF script = "part_000" THEN LegacyDueSoonOpens(data) ELSE DueSoonOpens(data)

Built(data) ==
    IF script = "part_000"
    THEN LegacyShowNotificationModal(data.tasks)
    ELSE showNotificationModal(OrEmpty(data, "tasks"), OrEmpty(data, "expirations"),
                               OrEmpty(data, "overdue_tasks"),
                               OrEmpty(data, "overdue_expirations"))

\* the response of a due_soon request arrives: the .then or the .catch of
\* checkTasksDueSoon
DueSoonArrives ==
    \E i \in 1..Len(dueSoonInFlight) :
        LET r == dueSoonInFlight[i]
        IN  /\ dueSoonInFlight' = Remove(dueSoonInFlight, i)
            /\ handled' = [op |-> "dueSoon", ok |-> r.ok, data |-> r.data,
                           caller |-> r.caller]
            /\ IF r.ok /\ Opens(r.data)
               THEN /\ modalContent' = Built(r.data)
                    /\ modalDisplay' = "flex"
               ELSE UNCHANGED <<modalContent, modalDisplay>>
            /\ UNCHANGED <<script, serverBodies, serverEnabled, toggleActive, notificationText,
                           toggleInFlight, postponeInFlight, refreshTimers, menus,
                           clickListener, listenerTimers>>
            /\ UNCHANGED <<calendarVars, searchVars, selectorVars, sidebarVars>>

\* hidePostponeMenus()
hidePostponeMenus(ms) == SelectSeq(ms, LAMBDA m : FALSE)

\* handleOutsideClick on a click outside every menu and off the postpone buttons
handleOutsideClick ==
    /\ menus' = (IF clickListener THEN hidePostponeMenus(menus) ELSE menus)
    /\ clickListener' = FALSE

\* the close button of the modal is clicked: closeNotificationModal(), and the
\* click reaches the document
closeNotificationModal ==
    /\ modalDisplay = "flex"
    /\ modalDisplay' = "none"
    /\ handleOutsideClick
    /\ handled' = [op |-> "close"]
    /\ UNCHANGED <<script, serverBodies, serverEnabled, modalContent, toggleActive, notificationText,
                   dueSoonInFlight, toggleInFlight, postponeInFlight, refreshTimers,
                   listenerTimers>>
    /\ UNCHANGED <<calendarVars, searchVars, selectorVars, sidebarVars>>

\* the toggle is clicked: toggleNotifications() up to the fetch; the server flips
\* the flag and answers with its new value, or the request fails
toggleNotifications ==
    /\ script # "none"
    /\ Len(toggleInFlight) < MaxToggle
    /\ \E ok \in BOOLEAN :
          /\ serverEnabled' = (IF ok THEN ~serverEnabled ELSE serverEnabled)
          /\ toggleInFlight' =
                Append(toggleInFlight, [ok |-> ok, notifications_enabled |-> serverEnabled'])
    /\ handleOutsideClick
    /\ handled' = [op |-> "toggleNotifications"]
    /\ UNCHANGED <<script, serverBodies, modalDisplay, modalContent, toggleActive, notificationText,
                   dueSoonInFlight, postponeInFlight, refreshTimers, listenerTimers>>
    /\ UNCHANGED <<calendarVars, searchVars, selectorVars, sidebarVars>>

\* the response of a toggle request arrives
ToggleArrives ==
    \E i \in 1..Len(toggleInFlight) :
        LET r == toggleInFlight[i]
        IN  /\ toggleInFlight' = Remove(toggleInFlight, i)
            /\ handled' = [op |-> "toggle", ok |-> r.ok,
                           notifications_enabled |-> r.notifications_enabled]
            /\ IF ~r.ok
               THEN UNCHANGED <<toggleActive, notificationText, dueSoonInFlight,
                                modalDisplay>>
               ELSE IF r.notifications_enabled
               THEN /\ toggleActive' = TRUE
                    /\ notificationText' =
                          (IF script = "part_000" THEN notificationText ELSE "Activadas")
                    /\ Len(dueSoonInFlight) < MaxDueSoon
                    /\ dueSoonInFlight' \in checkTasksDueSoon(dueSoonInFlight, "toggle")
                    /\ UNCHANGED modalDisplay
               ELSE /\ toggleActive' = FALSE
                    /\ notificationText' =
                          (IF script = "part_000" THEN notificationText ELSE "Desactivadas")
                    /\ modalDisplay' = "none"
                    /\ UNCHANGED dueSoonInFlight
            /\ UNCHANGED <<script, serverBodies, serverEnabled, modalContent, postponeInFlight,
                           refreshTimers, menus, clickListener, listenerTimers>>
            /\ UNCHANGED <<calendarVars, searchVars, selectorVars, sidebarVars>>

\* a menu opened without closing the others
showPostponeMenu_KeepsOthers(ms, taskId) == Append(ms, taskId)

\* showPostponeMenu(taskId, buttonElement): the menus in the document after it
showPostponeMenu(ms, taskId) == Append(hidePostponeMenus(ms), taskId)

\* the tasks whose postpone button the open modal shows
PostponeButtons ==
    IF modalDisplay = "flex"
    THEN {modalContent.tasks[i].id :
             i \in {j \in 1..Len(modalContent.tasks) : modalContent.tasks[j].postponeBtn}}
         \cup {modalContent.overdueTasks[i].id : i \in 1..Len(modalContent.overdueTasks)}
    ELSE {}

\* the buttons clicked
ClickTasks == {1, 3}

\* a postpone button is clicked: its onclick stops the propagation of the click
\* and calls showPostponeMenu, which defers the registration of the listener
ClickPostponeBtn ==
    \E taskId \in PostponeButtons \cap ClickTasks :
        /\ listenerTimers < MaxTimers
        /\ menus' = showPostponeMenu(menus, taskId)
        /\ listenerTimers' = listenerTimers + 1
        /\ handled' = [op |-> "showPostponeMenu"]
        /\ UNCHANGED <<script, serverBodies, serverEnabled, modalDisplay, modalContent, toggleActive,
                       notificationText, dueSoonInFlight, toggleInFlight,
                       postponeInFlight, refreshTimers, clickListener>>
        /\ UNCHANGED <<calendarVars, searchVars, selectorVars, sidebarVars>>

\* the zero-delay timer of showPostponeMenu fires
ListenerTimerFires ==
    /\ listenerTimers > 0
    /\ listenerTimers' = listenerTimers - 1
    /\ clickListener' = TRUE
    /\ handled' = [op |-> "addEventListener"]
    /\ UNCHANGED <<script, serverBodies, serverEnabled, modalDisplay, modalContent, toggleActive,
                   notificationText, dueSoonInFlight, toggleInFlight, postponeInFlight,
                   refreshTimers, menus>>
    /\ UNCHANGED <<calendarVars, searchVars, selectorVars, sidebarVars>>

\* a click outside every menu, off the postpone buttons and on nothing that has a
\* handler of its own
ClickOutside ==
    /\ script = "notifications.js"
    /\ handleOutsideClick
    /\ handled' = [op |-> "clickOutside", listening |-> clickListener,
                   removed |-> Len(menus) - Len(menus')]
    /\ UNCHANGED <<script, serverBodies, serverEnabled, modalDisplay, modalContent, toggleActive,
                   notificationText, dueSoonInFlight, toggleInFlight, postponeInFlight,
                   refreshTimers, listenerTimers>>
    /\ UNCHANGED <<calendarVars, searchVars, selectorVars, sidebarVars>>

\* a click inside a menu on its header or on "Fecha personalizada": the listener,
\* if registered, finds the click inside and removes nothing
ClickInsideMenu ==
    /\ menus # <<>>
    /\ handled' = [op |-> "clickInsideMenu", listening |-> clickListener]
    /\ UNCHANGED <<script, serverBodies, serverEnabled, modalDisplay, modalContent, toggleActive,
                   notificationText, dueSoonInFlight, toggleInFlight, postponeInFlight,
                   refreshTimers, menus, clickListener, listenerTimers>>
    /\ UNCHANGED <<calendarVars, searchVars, selectorVars, sidebarVars>>

\* an option of a menu is clicked: postponeTask(taskId, days), or
\* postponeTaskCustom(taskId) with or without a date entered
PostponeOptions == {"days", "custom", "customNoDate"}

ClickPostponeOption ==
    \E option \in PostponeOptions :
        /\ menus # <<>>
        /\ IF option = "customNoDate"
           THEN UNCHANGED postponeInFlight
           ELSE /\ postponeInFlight < MaxPostpone
                /\ postponeInFlight' = postponeInFlight + 1
        /\ handled' = [op |-> "postponeTask", option |-> option]
        /\ UNCHANGED <<script, serverBodies, serverEnabled, modalDisplay, modalContent, toggleActive,
                       notificationText, dueSoonInFlight, toggleInFlight,
                       refreshTimers, menus, clickListener, listenerTimers>>
        /\ UNCHANGED <<calendarVars, searchVars, selectorVars, sidebarVars>>

\* how a postpone request ends: data.success, a refusal, or a failed fetch
PostponeOutcomes == {"success", "refused", "failed"}

\* the response of a postpone request arrives
PostponeArrives ==
    \E outcome \in PostponeOutcomes :
        /\ postponeInFlight > 0
        /\ postponeInFlight' = postponeInFlight - 1
        /\ IF outcome = "success"
           THEN /\ refreshTimers < MaxTimers
                /\ menus' = hidePostponeMenus(menus)
                /\ refreshTimers' = refreshTimers + 1
           ELSE UNCHANGED <<menus, refreshTimers>>
        /\ handled' = [op |-> "postpone", outcome |-> outcome]
        /\ UNCHANGED <<script, serverBodies, serverEnabled, modalDisplay, modalContent, toggleActive,
                       notificationText, dueSoonInFlight, toggleInFlight,
                       clickListener, listenerTimers>>
        /\ UNCHANGED <<calendarVars, searchVars, selectorVars, sidebarVars>>

\* the 1500 ms timer set after a successful postpone fires: checkTasksDueSoon()
RefreshTimerFires ==
    /\ refreshTimers > 0
    /\ Len(dueSoonInFlight) < MaxDueSoon
    /\ refreshTimers' = refreshTimers - 1
    /\ dueSoonInFlight' \in checkTasksDueSoon(dueSoonInFlight, "refresh")
    /\ handled' = [op |-> "refreshTimer"]
    /\ UNCHANGED <<script, serverBodies, serverEnabled, modalDisplay, modalContent, toggleActive,
                   notificationText, toggleInFlight, postponeInFlight, menus,
                   clickListener, listenerTimers>>
    /\ UNCHANGED <<calendarVars, searchVars, selectorVars, sidebarVars>>

\* a page on which initCalendarWidget was not called: no widget, nothing rendered
NoCalendar ==
    /\ currentDate = Null
    /\ selectedDate = Null
    /\ eventDates = <<>>
    /\ onDateSelect = FALSE
    /\ filterStartDate = Null
    /\ filterEndDate = Null
    /\ today = Null
    /\ midnights = 0
    /\ reaction = <<>>
    /\ lastOp = "none"
    /\ html = Null

\* DOMContentLoaded: the page of a user with notifications enabled or disabled
\* has called checkTasksDueSoon()
PageLoaded(scripts, enabled, bodies) ==
    /\ NoCalendar
    /\ SearchIdle
    /\ SelectorIdle
    /\ SidebarIdle
    /\ script \in scripts
    /\ serverEnabled \in enabled
    /\ serverBodies = bodies
    /\ toggleActive = serverEnabled
    /\ notificationText = "template"
    /\ modalDisplay = "none"
    /\ modalContent = EmptyContent
    /\ dueSoonInFlight \in checkTasksDueSoon(<<>>, "load")
    /\ toggleInFlight = <<>>
    /\ postponeInFlight = 0
    /\ refreshTimers = 0
    /\ menus = <<>>
    /\ clickListener = FALSE
    /\ listenerTimers = 0
    /\ handled = [op |-> "DOMContentLoaded"]

\* every operation of notifications.js, on a server that reports tasks or nothing
NotifInit == PageLoaded({"notifications.js"}, BOOLEAN, {P_Empty, P_Tasks})

NotifNext ==
    \/ DueSoonArrives
    \/ closeNotificationModal
    \/ toggleNotifications
    \/ ToggleArrives
    \/ ClickPostponeBtn
    \/ ListenerTimerFires
    \/ ClickOutside
    \/ ClickInsideMenu
    \/ ClickPostponeOption
    \/ PostponeArrives
    \/ RefreshTimerFires

NotifSpec == NotifInit /\ [][NotifNext]_vars

\* the modal and the toggle of either script, under every body of the server
ModalInit == PageLoaded({"notifications.js", "part_000"}, BOOLEAN, DueSoonBodies)

ModalNext ==
    \/ DueSoonArrives
    \/ closeNotificationModal
    \/ toggleNotifications
    \/ ToggleArrives

ModalSpec == ModalInit /\ [][ModalNext]_vars

\* the postpone menus of notifications.js
MenuInit ==
    PageLoaded({"notifications.js"}, {TRUE}, {P_Empty, P_Tasks, P_OverdueTasks})

MenuNext ==
    \/ DueSoonArrives
    \/ closeNotificationModal
    \/ ClickPostponeBtn
    \/ ListenerTimerFires
    \/ ClickOutside
    \/ ClickInsideMenu
    \/ ClickPostponeOption
    \/ PostponeArrives
    \/ RefreshTimerFires

MenuSpec == MenuInit /\ [][MenuNext]_vars

-----------------------------------------------------------------------------
(* The search input of the task selector and its debounce *)

MaxSearch == 2      \* search requests in flight at once
MaxTimerIds == 3    \* timer ids in use at once
MaxBurst == 2       \* input events counted in a burst

Tick == 100
MinQueryLength == 2

TimerIds == 1..MaxTimerIds

\* String.prototype.trim() on a tuple of characters
RECURSIVE TrimStart(_)
TrimStart(s) == IF s # <<>> /\ Head(s) = " " THEN TrimStart(Tail(s)) ELSE s
RECURSIVE TrimEnd(_)
TrimEnd(s) ==
    IF s # <<>> /\ s[Len(s)] = " " THEN TrimEnd(SubSeq(s, 1, Len(s) - 1)) ELSE s
Trim(s) == TrimEnd(TrimStart(s))

\* what the user types into the input
TypedValues == {<<>>, <<"a", " ">>, <<"a", "b">>, <<" ", "a", "b", "c">>}

\* a timer of the page has reached its time
TimerDue == \E t \in timers : t.remaining = 0

\* a clearTimeout that cancels nothing
clearTimeout_NoOp(ts, id) == ts

\* clearTimeout(id)
clearTimeout(ts, id) == {t \in ts : t.id # id}

\* setTimeout(searchTasks, delay): the id of the new timer
setTimeout(ts) == CHOOSE id \in TimerIds :
    /\ id \notin {t.id : t \in ts}
    /\ \A other \in TimerIds : other \notin {t.id : t \in ts} => id <= other

\* searchTasks(): the prompt for a query under two characters, else the loading
\* line and a request
searchTasks ==
    LET query == Trim(inputValue)
    IN  IF Len(query) < MinQueryLength
        THEN /\ results' = [kind |-> "prompt", query |-> <<>>]
             /\ UNCHANGED searchInFlight
             /\ latest' = [inFlight |-> 0, shown |-> TRUE]
        ELSE /\ Len(searchInFlight) < MaxSearch
             /\ results' = [kind |-> "loading", query |-> <<>>]
             /\ searchInFlight' = Append(searchInFlight, query)
             /\ latest' = [inFlight |-> Len(searchInFlight'), shown |-> TRUE]

\* the input listener: an input event of the search input
InputEvent ==
    \E value \in TypedValues \ {inputValue} :
        LET cleared == clearTimeout(timers, searchTimeout)
        IN  /\ ~TimerDue
            /\ selectorDisplay = "flex"
            /\ \E id \in TimerIds : id \notin {t.id : t \in cleared}
            /\ inputValue' = value
            /\ searchTimeout' = setTimeout(cleared)
            /\ timers' = cleared \cup {[id |-> searchTimeout', remaining |-> DebounceDelay]}
            /\ burst' = IF sinceInput < DebounceDelay
                        THEN [burst EXCEPT !.events = Min(burst.events + 1, MaxBurst)]
                        ELSE [events |-> 1, searches |-> 0, requests |-> 0]
            /\ sinceInput' = 0
            /\ UNCHANGED <<results, searchInFlight, lastSearch, latest>>
            /\ UNCHANGED <<calendarVars, notifVars, selectorVars, sidebarVars>>

\* the keypress listener on Enter: searchTasks() at once
KeypressEnter ==
    /\ ~TimerDue
    /\ selectorDisplay = "flex"
    /\ searchTasks
    /\ lastSearch' = [by |-> "Enter", sinceInput |-> sinceInput]
    /\ UNCHANGED <<inputValue, searchTimeout, timers, sinceInput, burst>>
    /\ UNCHANGED <<calendarVars, notifVars, selectorVars, sidebarVars>>

\* a debounce timer fires: searchTasks()
TimerFires ==
    \E t \in timers :
        /\ t.remaining = 0
        /\ timers' = timers \ {t}
        /\ searchTasks
        /\ lastSearch' = [by |-> "timer", sinceInput |-> sinceInput]
        /\ burst' = [burst EXCEPT !.searches = burst.searches + 1,
                                  !.requests = burst.requests
                                      + Len(searchInFlight') - Len(searchInFlight)]
        /\ UNCHANGED <<inputValue, searchTimeout, sinceInput>>
        /\ UNCHANGED <<calendarVars, notifVars, selectorVars, sidebarVars>>

\* how a search request ends
SearchOutcomes == {"tasks", "none", "failed"}

\* the response of a search request arrives: the .then or .catch of searchTasks
SearchArrives ==
    \E i \in 1..Len(searchInFlight), outcome \in SearchOutcomes :
        /\ ~TimerDue
        /\ searchInFlight' = Remove(searchInFlight, i)
        /\ results' = [kind |-> outcome, query |-> searchInFlight[i]]
        /\ latest' = [inFlight |-> IF i = latest.inFlight THEN 0
                                   ELSE IF i < latest.inFlight THEN latest.inFlight - 1
                                   ELSE latest.inFlight,
                       shown |-> i = latest.inFlight]
        /\ UNCHANGED <<inputValue, searchTimeout, timers, sinceInput, lastSearch, burst>>
        /\ UNCHANGED <<calendarVars, notifVars, selectorVars, sidebarVars>>

\* time passes, unless a timer has reached its time and must fire first
TimePasses ==
    /\ ~TimerDue
    /\ timers # {} \/ sinceInput < DebounceDelay
    /\ timers' = {[id |-> t.id, remaining |-> t.remaining - Tick] : t \in timers}
    /\ sinceInput' = Min(sinceInput + Tick, DebounceDelay)
    /\ UNCHANGED <<inputValue, results, searchTimeout, searchInFlight, lastSearch, burst,
                   latest>>
    /\ UNCHANGED <<calendarVars, notifVars, selectorVars, sidebarVars>>

\* the modal of the task selector is on screen
SelectorOpened ==
    /\ selectorDisplay = "flex"
    /\ selectedParentTask = NoParentTask
    /\ parent_id = <<>>
    /\ parentTaskDisplay = [kind |-> "markup", id |-> 0, title |-> <<>>]
    /\ selectorOp = "openTaskSelector"

\* DOMContentLoaded on a page that has the search input: the listeners are attached,
\* and the user has opened the selector
SearchInit ==
    /\ NoCalendar
    /\ NotifIdle
    /\ SidebarIdle
    /\ SearchIdle
    /\ SelectorOpened

SearchNext == InputEvent \/ KeypressEnter \/ TimerFires \/ SearchArrives \/ TimePasses

SearchSpec == SearchInit /\ [][SearchNext]_vars

-----------------------------------------------------------------------------
(* The task selector modal and the parent task of the form *)

\* the tasks a search response lists: the arguments of the onclick of its items
ParentTasks == {[id |-> 3, title |-> <<"a", "b">>], [id |-> 12, title |-> <<"a", "b", "c">>]}

\* the value the template may give the hidden input of a task with a parent
TemplateParentIds == {<<>>, <<"7">>}

\* openTaskSelector(): the modal is shown, the input and the results are cleared
openTaskSelector ==
    /\ ~TimerDue
    /\ selectorDisplay = "none"
    /\ selectorDisplay' = "flex"
    /\ inputValue' = <<>>
    /\ results' = [kind |-> "empty", query |-> <<>>]
    /\ latest' = [inFlight |-> 0, shown |-> TRUE]
    /\ selectorOp' = "openTaskSelector"
    /\ UNCHANGED <<selectedParentTask, parent_id, parentTaskDisplay>>
    /\ UNCHANGED <<searchTimeout, timers, sinceInput, searchInFlight, lastSearch, burst>>
    /\ UNCHANGED <<calendarVars, notifVars, sidebarVars>>

\* closeTaskSelector()
closeTaskSelector == selectorDisplay' = "none"

\* the click listener of the modal: a click on the modal outside its content
ClickModalBackdrop ==
    /\ ~TimerDue
    /\ selectorDisplay = "flex"
    /\ closeTaskSelector
    /\ selectorOp' = "closeTaskSelector"
    /\ UNCHANGED <<selectedParentTask, parent_id, parentTaskDisplay>>
    /\ UNCHANGED <<calendarVars, notifVars, searchVars, sidebarVars>>

\* parent_id.value = taskId with nothing assigned
ParentIdValue_Unassigned(taskId) == <<>>

\* parent_id.value = taskId: the number as the string the input holds
ParentIdValue(taskId) == ToStr(taskId)

\* selectParentTask(taskId, taskTitle)
selectParentTask(taskId, taskTitle) ==
    /\ selectedParentTask' = [kind |-> "object", id |-> taskId, title |-> taskTitle]
    /\ parent_id' = ParentIdValue(taskId)
    /\ parentTaskDisplay' = [kind |-> "selected", id |-> taskId, title |-> taskTitle]
    /\ closeTaskSelector

\* the onclick of a task item of the results
ClickTaskItem ==
    \E task \in ParentTasks :
        /\ ~TimerDue
        /\ selectorDisplay = "flex"
        /\ results.kind = "tasks"
        /\ selectParentTask(task.id, task.title)
        /\ selectorOp' = "selectParentTask"
        /\ UNCHANGED <<calendarVars, notifVars, searchVars, sidebarVars>>

\* clearParentTask()
clearParentTask ==
    /\ selectedParentTask' = NoParentTask
    /\ parent_id' = <<>>
    /\ parentTaskDisplay' = [kind |-> "none", id |-> 0, title |-> <<>>]

\* the onclick of the button that removes the parent task
ClickClearParent ==
    /\ ~TimerDue
    /\ \/ parentTaskDisplay.kind = "selected"
       \/ parentTaskDisplay.kind = "markup" /\ parent_id # <<>>
    /\ clearParentTask
    /\ selectorOp' = "clearParentTask"
    /\ UNCHANGED selectorDisplay
    /\ UNCHANGED <<calendarVars, notifVars, searchVars, sidebarVars>>

\* the form of a new task or of a task that has a parent, the modal hidden
SelectorInit ==
    /\ NoCalendar
    /\ NotifIdle
    /\ SidebarIdle
    /\ SearchIdle
    /\ selectorDisplay = "none"
    /\ selectedParentTask = NoParentTask
    /\ parent_id \in TemplateParentIds
    /\ parentTaskDisplay = [kind |-> "markup", id |-> 0, title |-> <<>>]
    /\ selectorOp = "none"

SelectorNext ==
    \/ openTaskSelector
    \/ ClickModalBackdrop
    \/ ClickTaskItem
    \/ ClickClearParent
    \/ InputEvent
    \/ KeypressEnter
    \/ TimerFires
    \/ SearchArrives
    \/ TimePasses

SelectorSpec == SelectorInit /\ [][SelectorNext]_vars

-----------------------------------------------------------------------------
(* The sidebar: collapsed state, mobile menu and the resize listener *)

ResizeDelay == 100

\* the values of window.innerWidth
Widths == {800, Breakpoint, Breakpoint + 1, 1200}

StoredTrue == <<"t", "r", "u", "e">>
StoredFalse == <<"f", "a", "l", "s", "e">>

\* localStorage.setItem(STORAGE_KEY, isCollapsed): the boolean as a string
StoredValue(isCollapsed) == IF isCollapsed THEN StoredTrue ELSE StoredFalse

\* what localStorage holds under the key when the page loads
StoredAtLoad == {Null, StoredTrue, StoredFalse, <<"1">>}

\* the timer of the resize listener has reached its time
ResizeTimerDue == 0 \in resizeTimer

\* initSidebarState(): whether the class 'collapsed' is added
initSidebarState(stored, width) == stored = StoredTrue /\ width > Breakpoint

\* toggleSidebar()
toggleSidebar ==
    /\ collapsed' = ~collapsed
    /\ storage' = StoredValue(collapsed')
    /\ UNCHANGED <<mobileOpen, overlayActive, bodyOverflow>>

\* toggleMobileMenu()
toggleMobileMenu ==
    /\ mobileOpen' = ~mobileOpen
    /\ overlayActive' = ~overlayActive
    /\ bodyOverflow' = IF mobileOpen' THEN <<"h", "i", "d", "d", "e", "n">> ELSE <<>>

\* closeMobileMenu()
closeMobileMenu ==
    /\ mobileOpen' = FALSE
    /\ overlayActive' = FALSE
    /\ bodyOverflow' = <<>>

\* the click listener of the toggle button
ClickToggle ==
    /\ ~ResizeTimerDue
    /\ IF innerWidth > Breakpoint
       THEN toggleSidebar
       ELSE closeMobileMenu /\ UNCHANGED <<collapsed, storage>>
    /\ sidebarOp' = [op |-> "toggle", was |-> collapsed]
    /\ UNCHANGED <<innerWidth, resizeTimer>>
    /\ UNCHANGED <<calendarVars, notifVars, searchVars, selectorVars>>

\* the click listener of the mobile menu button
ClickMobileMenu ==
    /\ ~ResizeTimerDue
    /\ toggleMobileMenu
    /\ sidebarOp' = [op |-> "mobileMenu", was |-> collapsed]
    /\ UNCHANGED <<collapsed, storage, innerWidth, resizeTimer>>
    /\ UNCHANGED <<calendarVars, notifVars, searchVars, selectorVars>>

\* the click listener of the overlay
ClickOverlay ==
    /\ ~ResizeTimerDue
    /\ closeMobileMenu
    /\ sidebarOp' = [op |-> "overlay", was |-> collapsed]
    /\ UNCHANGED <<collapsed, storage, innerWidth, resizeTimer>>
    /\ UNCHANGED <<calendarVars, notifVars, searchVars, selectorVars>>

\* the resize listener: the window gets another width, the timer is set anew
Resize ==
    \E width \in Widths \ {innerWidth} :
        /\ ~ResizeTimerDue
        /\ innerWidth' = width
        /\ resizeTimer' = {ResizeDelay}
        /\ sidebarOp' = [op |-> "resize", was |-> collapsed]
        /\ UNCHANGED <<collapsed, mobileOpen, overlayActive, bodyOverflow, storage>>
        /\ UNCHANGED <<calendarVars, notifVars, searchVars, selectorVars>>

\* the callback of the resize timer on a wide window leaves the class as it is
RestoreCollapsed_Never(isCollapsed, stored) == isCollapsed

\* the callback of the resize timer on a wide window: 'collapsed' is added when
\* the stored value is 'true'
RestoreCollapsed(isCollapsed, stored) == isCollapsed \/ stored = StoredTrue

\* the callback of the resize timer
ResizeTimerFires ==
    /\ ResizeTimerDue
    /\ resizeTimer' = {}
    /\ IF innerWidth > Breakpoint
       THEN /\ closeMobileMenu
            /\ collapsed' = RestoreCollapsed(collapsed, storage)
       ELSE /\ collapsed' = FALSE
            /\ UNCHANGED <<mobileOpen, overlayActive, bodyOverflow>>
    /\ sidebarOp' = [op |-> "resizeTimer", was |-> collapsed]
    /\ UNCHANGED <<storage, innerWidth>>
    /\ UNCHANGED <<calendarVars, notifVars, searchVars, selectorVars>>

\* time passes until the resize timer has reached its time
SidebarTimePasses ==
    /\ resizeTimer # {}
    /\ ~ResizeTimerDue
    /\ resizeTimer' = {remaining - Tick : remaining \in resizeTimer}
    /\ UNCHANGED <<collapsed, mobileOpen, overlayActive, bodyOverflow, storage,
                   innerWidth, sidebarOp>>
    /\ UNCHANGED <<calendarVars, notifVars, searchVars, selectorVars>>

\* DOMContentLoaded: initSidebarState() has run on markup without the class
SidebarInit ==
    /\ NoCalendar
    /\ NotifIdle
    /\ SearchIdle
    /\ SelectorIdle
    /\ storage \in StoredAtLoad
    /\ innerWidth \in Widths
    /\ collapsed = initSidebarState(storage, innerWidth)
    /\ mobileOpen = FALSE
    /\ overlayActive = FALSE
    /\ bodyOverflow = <<>>
    /\ resizeTimer = {}
    /\ sidebarOp = [op |-> "none", was |-> FALSE]

SidebarNext ==
    \/ ClickToggle
    \/ ClickMobileMenu
    \/ ClickOverlay
    \/ Resize
    \/ ResizeTimerFires
    \/ SidebarTimePasses

SidebarSpec == SidebarInit /\ [][SidebarNext]_vars

-----------------------------------------------------------------------------
(* Claims *)

\* C1: a nextMonth step shows the month immediately after the one shown before it
\* (December -> January of year + 1), and a prevMonth step the month immediately
\* before (January -> December of year - 1), whatever day currentDate holds.
C1_NavMovesOneMonth ==
    [][/\ lastOp' = "nextMonth" => Visible' = SuccMonth(Visible)
       /\ lastOp' = "prevMonth" => Visible' = PredMonth(Visible)]_vars

\* C2: after a nextMonth step, prevMonth leads back to the month that was shown
\* before the nextMonth step.
C2_NextThenPrevRoundTrip ==
    [][lastOp' = "nextMonth" =>
        YearMonth(prevMonthDate(currentDate')) = YearMonth(currentDate)]_vars

\* C3: from every reachable state showing (Y, M), twelve nextMonth calls show
\* (Y + 1, M) and twelve prevMonth calls show (Y - 1, M).
C3_TwelveStepsOneYear ==
    /\ YearMonth(Navigate(currentDate, 1, 12)) = <<currentDate.y + 1, currentDate.m>>
    /\ YearMonth(Navigate(currentDate, -1, 12)) = <<currentDate.y - 1, currentDate.m>>

\* C4: the rendered grid is leading fillers, in-month cells, trailing fillers; its
\* length is a positive multiple of 7, and trailing fillers are emitted only when
\* the leading fillers plus the in-month cells do not already fill whole weeks.
C4_GridWholeWeeks ==
    /\ Len(html.cells) > 0
    /\ Len(html.cells) % 7 = 0
    /\ InMonthPos(html) = FirstInMonth(html)..LastInMonth(html)
    /\ TrailingCount(html) < 7
    /\ TrailingCount(html) > 0 => (LeadingCount(html) + InMonthCount(html)) % 7 # 0

C4_Witness ==
    /\ lastOp = "nextMonth"
    /\ Visible = <<2024, 2>>
    /\ TrailingCount(html) = 0
    /\ Len(html.cells) = 35

\* C5: the in-month cells are as many as the month has days (31 or 30 by month,
\* February 28, or 29 in a leap year: divisible by 4 and not by 100, or by 400), and
\* they are numbered 1, 2, ... in ascending order without gap or repeat.
C5_InMonthCellsAreTheDays ==
    /\ InMonthCount(html) = RealDaysInMonth(html.year, html.month)
    /\ \A i \in InMonthPos(html) : html.cells[i].text = i - LeadingCount(html)

C5_Witness ==
    /\ lastOp = "nextMonth"
    /\ Visible = <<2100, 1>>
    /\ InMonthCount(html) = 28

\* C6: the leading fillers are as many as the Monday-first week day index of day 1
\* (Monday 0 ... Sunday 6), and show the last day numbers of the previous month in
\* ascending order, ending at its last day; March 2024 has 4 of them and 35 cells.
C6_LeadingFillers ==
    /\ LeadingCount(html) = MondayFirstWeekDay(html.year, html.month, 1)
    /\ \A k \in 1..LeadingCount(html) :
        /\ IsFiller(html.cells[k])
        /\ html.cells[k].text =
             RealDaysInMonth(PredMonth(Visible)[1], PredMonth(Visible)[2])
             - LeadingCount(html) + k
    /\ Visible = <<2024, 2>> => LeadingCount(html) = 4 /\ Len(html.cells) = 35

\* a month that starts on a Sunday (September 2024), reached by navigation
C6_Witness ==
    /\ lastOp = "prevMonth"
    /\ Visible = <<2024, 8>>
    /\ LeadingCount(html) = 6
    /\ html.cells[6].text = 31

\* C9: exactly one cell is marked today when today lies in the visible month, none
\* otherwise, and a filler cell is never marked today.
TodayCells(h) == {i \in 1..Len(h.cells) : HasClass(h.cells[i], "today")}
C9_ExactlyOneToday ==
    /\ Cardinality(TodayCells(html)) = (IF YearMonth(today) = Visible THEN 1 ELSE 0)
    /\ \A i \in TodayCells(html) : ~IsFiller(html.cells[i]) /\ html.cells[i].text = today.d

\* today (29 February 2024) is shown as a filler of March 2024 and is not marked
C9_Witness ==
    /\ lastOp = "nextMonth"
    /\ Visible = <<2024, 2>>
    /\ today = [y |-> 2024, m |-> 1, d |-> 29]
    /\ IsFiller(html.cells[4]) /\ html.cells[4].text = 29
    /\ TodayCells(html) = {}

\* the date string a cell of the visible month stands for
CellDate(cell) == Iso(html.year, html.month, cell.text)

\* C7: an in-month cell is marked filter-start iff its date string equals
\* filterStartDate, filter-end iff it equals filterEndDate, and in-filter-range iff
\* both endpoints are set and the string lies strictly between them; a cell before
\* the start or after the end of a window start <= end carries none of the marks.
C7_FilterMarks ==
    \A i \in InMonthPos(html) :
        LET cell == html.cells[i]
            date == CellDate(html.cells[i])
        IN  /\ HasClass(cell, "filter-start") <=> filterStartDate = date
            /\ HasClass(cell, "filter-end") <=> filterEndDate = date
            /\ HasClass(cell, "in-filter-range") <=>
                 /\ filterStartDate # Null
                 /\ filterEndDate # Null
                 /\ StrLess(filterStartDate, date)
                 /\ StrLess(date, filterEndDate)
            /\ ( /\ filterStartDate # Null
                 /\ filterEndDate # Null
                 /\ StrLeq(filterStartDate, filterEndDate)
                 /\ StrLess(date, filterStartDate) \/ StrLess(filterEndDate, date) )
               => /\ ~HasClass(cell, "filter-start")
                  /\ ~HasClass(cell, "filter-end")
                  /\ ~HasClass(cell, "in-filter-range")

\* March 2024 under the filter 2024-03-10 .. 2024-03-15, reached by navigation
C7_Witness ==
    /\ lastOp = "nextMonth"
    /\ Visible = <<2024, 2>>
    /\ filterStartDate = D_0310 /\ filterEndDate = D_0315
    /\ HasClass(html.cells[4 + 10], "filter-start")
    /\ HasClass(html.cells[4 + 12], "in-filter-range")
    /\ HasClass(html.cells[4 + 15], "filter-end")
    /\ ~HasClass(html.cells[4 + 16], "in-filter-range")

\* a well-formed zero-padded YYYY-MM-DD date string
IsDigit(c) == CharCode(c) >= 48 /\ CharCode(c) <= 57
DigitValue(c) == CharCode(c) - 48
WellFormed(s) ==
    /\ s # Null
    /\ Len(s) = 10
    /\ \A i \in {1, 2, 3, 4, 6, 7, 9, 10} : IsDigit(s[i])
    /\ s[5] = "-" /\ s[8] = "-"
    /\ 10 * DigitValue(s[6]) + DigitValue(s[7]) \in 1..12
    /\ 10 * DigitValue(s[9]) + DigitValue(s[10]) \in 1..31
Malformed(s) == s # Null /\ ~WellFormed(s)

\* what holds of every cell under malformed strings: no event marker without a
\* well-formed event date equal to the cell's date, and no boundary mark from a
\* malformed endpoint
MalformedNeverEqual(cell) ==
    /\ cell.eventDot =>
         \E k \in 1..Len(eventDates) :
             WellFormed(eventDates[k]) /\ eventDates[k] = CellDate(cell)
    /\ Malformed(filterStartDate) => ~HasClass(cell, "filter-start")
    /\ Malformed(filterEndDate) => ~HasClass(cell, "filter-end")

\* C8 as claimed: strings that are no well-formed dates match nothing: they mark no
\* cell has-event, filter-start, filter-end or in-filter-range.
C8_MalformedMatchNothing ==
    \A i \in 1..Len(html.cells) :
        /\ MalformedNeverEqual(html.cells[i])
        /\ (Malformed(filterStartDate) \/ Malformed(filterEndDate))
             => ~HasClass(html.cells[i], "in-filter-range")

\* C8 as amended: strings that are no well-formed dates mark no cell has-event,
\* filter-start or filter-end; in-filter-range is still decided by the order of the
\* strings, so under a malformed endpoint exactly the in-month cells whose date
\* string lies strictly between the two endpoints are marked.
C8_MalformedMatchOnlyByOrder ==
    \A i \in 1..Len(html.cells) :
        /\ MalformedNeverEqual(html.cells[i])
        /\ (Malformed(filterStartDate) \/ Malformed(filterEndDate))
             => ( HasClass(html.cells[i], "in-filter-range") <=>
                    /\ ~IsFiller(html.cells[i])
                    /\ filterStartDate # Null
                    /\ filterEndDate # Null
                    /\ StrLess(filterStartDate, CellDate(html.cells[i]))
                    /\ StrLess(CellDate(html.cells[i]), filterEndDate) )

\* the endpoints "2024" and "2025" mark every day of March 2024; the event string
\* "2024-3-7" marks nothing
C8_Witness ==
    /\ lastOp = "nextMonth"
    /\ Visible = <<2024, 2>>
    /\ filterStartDate = M_Year /\ filterEndDate = M_NextYear
    /\ Includes(eventDates, M_Unpadded)
    /\ \A i \in InMonthPos(html) : HasClass(html.cells[i], "in-filter-range")
    /\ ~html.cells[4 + 7].eventDot

\* C10: a cell shows the event marker iff it is an in-month cell whose zero-padded
\* YYYY-MM-DD string is in eventDates; a filler cell never shows it, even when the
\* date of the adjacent month it stands for is in eventDates.
C10_EventMarker ==
    \A i \in 1..Len(html.cells) :
        html.cells[i].eventDot <=>
            ~IsFiller(html.cells[i]) /\ Includes(eventDates, CellDate(html.cells[i]))

\* March 2024 with events on 29 February (a filler) and 1 March
C10_Witness ==
    /\ lastOp = "setEventDates"
    /\ Visible = <<2024, 2>>
    /\ Includes(eventDates, D_0229) /\ Includes(eventDates, D_0301)
    /\ IsFiller(html.cells[4]) /\ html.cells[4].text = 29 /\ ~html.cells[4].eventDot
    /\ html.cells[5].text = 1 /\ html.cells[5].eventDot

\* C11: an in-month cell is marked weekend iff its date is a Saturday or a Sunday,
\* which is iff its 0-based grid position p has p mod 7 in {5, 6}.
WeekendCells(h) == {i \in 1..Len(h.cells) : HasClass(h.cells[i], "weekend")}
C11_WeekendCells ==
    \A i \in InMonthPos(html) :
        /\ (i \in WeekendCells(html))
              <=> (MondayFirstWeekDay(html.year, html.month, html.cells[i].text) \in {5, 6})
        /\ (i \in WeekendCells(html)) <=> ((i - 1) % 7 \in {5, 6})

\* March 2024 after a navigation: Friday 1 unmarked at position 4, Saturday 2 and
\* Sunday 3 marked at positions 5 and 6, Monday 4 unmarked at position 7
C11_Witness ==
    /\ lastOp \in {"prevMonth", "nextMonth"}
    /\ Visible = <<2024, 2>>
    /\ html.cells[5].text = 1 /\ ~IsFiller(html.cells[5])
    /\ WeekendCells(html) \cap (5..8) = {6, 7}

\* C12: at most one cell is marked selected: the in-month cell whose date string
\* equals selectedDate, and only when that cell is not today; the cell of today is
\* marked today and never selected.
SelectedCells(h) == {i \in 1..Len(h.cells) : HasClass(h.cells[i], "selected")}
C12_AtMostOneSelected ==
    /\ Cardinality(SelectedCells(html)) <= 1
    /\ \A i \in 1..Len(html.cells) :
          (i \in SelectedCells(html))
            <=> /\ ~IsFiller(html.cells[i])
                /\ CellDate(html.cells[i]) = selectedDate
                /\ i \notin TodayCells(html)
    /\ (selectedDate = Iso(today.y, today.m, today.d) /\ YearMonth(today) = Visible)
          => SelectedCells(html) = {} /\ Cardinality(TodayCells(html)) = 1

\* February 2024 seen on 29 February with 15 February clicked: the 15th (position
\* 17) is the selected cell, the 29th (position 31) is today
C12_Witness ==
    /\ lastOp = "selectDate"
    /\ Visible = <<2024, 1>>
    /\ selectedDate = Iso(2024, 1, 15)
    /\ SelectedCells(html) = {18}
    /\ TodayCells(html) = {32}

\* C13: selectDate(d) first sets selectedDate to d, then either calls onDateSelect
\* exactly once with d (when a callback was supplied) or requests navigation to the
\* current URL with start_date = d, end_date = d and period = custom (when none
\* was), never both, and renders the grid after that.
Effects(kind) == {i \in 1..Len(reaction) : reaction[i].effect = kind}
C13_SelectDateEffects ==
    lastOp = "selectDate" =>
        /\ Len(reaction) = 3
        /\ reaction[1] = [effect |-> "selectedDate", value |-> selectedDate]
        /\ reaction[3] = [effect |-> "render", value |-> selectedDate]
        /\ html = render(Widget(currentDate, selectedDate, eventDates,
                                filterStartDate, filterEndDate), today)
        /\ Cardinality(Effects("onDateSelect")) = (IF onDateSelect THEN 1 ELSE 0)
        /\ Cardinality(Effects("location.href")) = (IF onDateSelect THEN 0 ELSE 1)
        /\ onDateSelect => reaction[2].value = selectedDate
        /\ ~onDateSelect =>
              reaction[2].value = [PageLocation EXCEPT !.start_date = selectedDate,
                                                       !.end_date = selectedDate,
                                                       !.period = "custom"]

\* 15 February 2024 clicked on a page that supplied a callback
C13_Witness ==
    /\ lastOp = "selectDate"
    /\ onDateSelect
    /\ selectedDate = Iso(2024, 1, 15)
    /\ Effects("onDateSelect") = {2}

\* C14: prevMonth and nextMonth leave selectedDate, eventDates and the filter
\* endpoints unchanged; selectDate leaves the visible (year, month), eventDates and
\* the filter endpoints unchanged; setEventDates puts the given array in place of
\* eventDates and leaves the visible month, selectedDate and the filter endpoints
\* unchanged; the visible month changes only through navigation; and selectedDate,
\* once set, is never null again.
C14_Frame ==
    [][/\ lastOp' \in {"prevMonth", "nextMonth"} =>
             UNCHANGED <<selectedDate, eventDates, filterStartDate, filterEndDate>>
       /\ lastOp' = "selectDate" =>
             /\ Visible' = Visible
             /\ YearMonth(currentDate') = YearMonth(currentDate)
             /\ UNCHANGED <<eventDates, filterStartDate, filterEndDate>>
       /\ lastOp' = "setEventDates" =>
             /\ Visible' = Visible
             /\ YearMonth(currentDate') = YearMonth(currentDate)
             /\ eventDates' \in EventOptions
             /\ UNCHANGED <<selectedDate, filterStartDate, filterEndDate>>
       /\ Visible' # Visible => lastOp' \in {"prevMonth", "nextMonth"}
       /\ selectedDate # Null => selectedDate' # Null]_vars

\* 20 March 2024 selected while February 2024 is shown, which stays shown; then
\* the events replaced, which keeps the selection
C14_Witness ==
    /\ lastOp = "setEventDates"
    /\ eventDates # <<>>
    /\ selectedDate = D_0320
    /\ Visible = <<2024, 1>>

\* the ids of the items a content lists, and of the items a response body reports
ItemIds(items) == [i \in 1..Len(items) |-> items[i].id]
Range(seq) == {seq[i] : i \in 1..Len(seq)}
ContentIds(content) ==
    Range(ItemIds(content.overdueTasks)) \cup Range(ItemIds(content.overdueExpirations))
    \cup Range(ItemIds(content.tasks)) \cup Range(ItemIds(content.expirations))
Reported(data, name) == IF name \in data.absent THEN <<>> ELSE data[name]
ReportedIds(data) ==
    UNION {Range(ItemIds(Reported(data, name))) : name \in AllLists}

\* the items the user sees in the modal
Displayed == IF modalDisplay = "flex" THEN ContentIds(modalContent) ELSE {}

\* C15: when the response of the due_soon request sent by the 1500 ms timer of a
\* successful postpone has been handled, the modal shows exactly the items of
\* that response; a task it no longer reports, and every task when it reports
\* none, is no longer displayed.
C15_RefreshShowsLatestResponse ==
    (handled.op = "dueSoon" /\ handled.caller = "refresh" /\ handled.ok)
        => Displayed = ReportedIds(handled.data)

\* C16 as stated: a handled response opens the modal, with content built from it,
\* iff one of the four lists has an item; otherwise, and when the fetch fails,
\* content and visibility stay as they were.
AnyListHasItems(data) == \E name \in AllLists : Reported(data, name) # <<>>
ShowsResponse(content, data) ==
    /\ ItemIds(content.tasks) = ItemIds(Reported(data, "tasks"))
    /\ ItemIds(content.expirations) = ItemIds(Reported(data, "expirations"))
    /\ ItemIds(content.overdueTasks) = ItemIds(Reported(data, "overdue_tasks"))
    /\ ItemIds(content.overdueExpirations) = ItemIds(Reported(data, "overdue_expirations"))
C16_OpensIffAnyList ==
    [][handled'.op = "dueSoon" =>
        IF handled'.ok /\ AnyListHasItems(handled'.data)
        THEN /\ modalDisplay' = "flex"
             /\ ContentIds(modalContent') = ReportedIds(handled'.data)
        ELSE UNCHANGED <<modalDisplay, modalContent>>]_vars

\* C16, amended: in notifications.js a handled response opens the modal, with
\* content built from it, iff one of the four lists has an item; in the older
\* script iff the list of tasks has one, and the content is built from the tasks;
\* otherwise, and when the fetch fails, content and visibility stay as they were.
C16_OpensIffListsOfScript ==
    [][handled'.op = "dueSoon" =>
        IF script = "part_000"
        THEN IF handled'.ok /\ Reported(handled'.data, "tasks") # <<>>
             THEN /\ modalDisplay' = "flex"
                  /\ ItemIds(modalContent'.tasks) = ItemIds(handled'.data.tasks)
                  /\ ContentIds(modalContent') = Range(ItemIds(handled'.data.tasks))
             ELSE UNCHANGED <<modalDisplay, modalContent>>
        ELSE IF handled'.ok /\ AnyListHasItems(handled'.data)
             THEN /\ modalDisplay' = "flex"
                  /\ ShowsResponse(modalContent', handled'.data)
             ELSE UNCHANGED <<modalDisplay, modalContent>>]_vars

\* notifications.js has opened the modal on a response whose only items are
\* overdue expirations
C16_Witness ==
    /\ script = "notifications.js"
    /\ handled.op = "dueSoon" /\ handled.ok /\ handled.data = P_OverdueExpirations
    /\ modalDisplay = "flex"
    /\ ContentIds(modalContent) = {5}

\* C17: once a toggle response has reported notifications_enabled = false, so
\* that the toggle reads "Desactivadas" and the modal was closed, the modal stays
\* hidden until a toggle response reports true.
C17_HiddenWhileDisabled ==
    notificationText = "Desactivadas" => modalDisplay = "none"

DueSoonItems == UNION {Range(b.tasks) \cup Range(b.expirations) : b \in DueSoonBodies}
DaysRemainingOf(id) == (CHOOSE item \in DueSoonItems : item.id = id).days_remaining
UrgencyOf(days) ==
    CASE days = Num(0) -> [text |-> <<"¡VENCE HOY!">>, color |-> "#dc2626"]
      [] days = Num(1) -> [text |-> <<"Vence mañana (1 día hábil)">>, color |-> "#f59e0b"]
      [] OTHER -> [text |-> <<"Vence en ", days, " días hábiles">>, color |-> "#059669"]
C19_UrgencyClasses ==
    \A item \in Range(modalContent.tasks) \cup Range(modalContent.expirations) :
        item.urgency = UrgencyOf(DaysRemainingOf(item.id))

\* the older script lists the task that was due yesterday, notifications.js the
\* expiration whose days_remaining is the string "1": both in the third class
C19_Witness ==
    \/ /\ script = "part_000"
       /\ \E item \in Range(modalContent.tasks) :
             /\ item.id = 6
             /\ item.urgency.text = <<"Vence en ", Num(-1), " días hábiles">>
    \/ /\ script = "notifications.js"
       /\ \E item \in Range(modalContent.expirations) :
             /\ item.id = 9
             /\ item.urgency.text = <<"Vence en ", StrNum(1), " días hábiles">>

C21_LatestOutcomeShown ==
    (searchInFlight = <<>> /\ timers = {}) => latest.shown

\* the hidden input parent_id agrees with selectedParentTask
ParentIdAgrees ==
    IF selectedParentTask.kind = "object"
    THEN parent_id = ToStr(selectedParentTask.id)
    ELSE parent_id = <<>>

\* C22: once selectParentTask or clearParentTask has been called, the hidden input
\* parent_id holds the id of selectedParentTask when that is non-null and the empty
\* string when it is null; selectParentTask leaves the selector modal closed, and
\* clearParentTask leaves the modal's display as it was
C22_ParentIdAgrees ==
    [][/\ parentTaskDisplay'.kind # "markup" => ParentIdAgrees'
       /\ selectorOp' = "selectParentTask" => selectorDisplay' = "none"
       /\ selectorOp' = "clearParentTask" => selectorDisplay' = selectorDisplay]_vars

\* task 12 of the results has been selected as the parent
C22_Witness ==
    /\ selectorOp = "selectParentTask"
    /\ selectedParentTask.kind = "object"
    /\ selectedParentTask.id = 12
    /\ parent_id = <<"1", "2">>
    /\ selectorDisplay = "none"

\* the resize timer is not pending
SidebarSettled == resizeTimer = {}

\* the class 'collapsed' against the stored value and the width of the window
CollapsedAsStored ==
    /\ (SidebarSettled /\ innerWidth > 992) => (collapsed <=> storage = <<"t", "r", "u", "e">>)
    /\ (SidebarSettled /\ innerWidth <= 992) => ~collapsed

\* C23: while no resize timer is pending, a window wider than 992 px has the
\* sidebar collapsed iff localStorage holds 'true' under sidebar_collapsed, and a
\* window of 992 px or less has it not collapsed; a resize and its timer leave the
\* stored value as it was
C23_CollapsedPersists ==
    [][/\ CollapsedAsStored
       /\ CollapsedAsStored'
       /\ sidebarOp'.op \in {"resize", "resizeTimer"} => storage' = storage]_vars

\* growing back to a wide window has given the sidebar the class again
C23_Witness ==
    /\ sidebarOp.op = "resizeTimer"
    /\ ~sidebarOp.was
    /\ collapsed
    /\ innerWidth > 992
    /\ SidebarSettled

====
